---- MODULE Spec2Model ----
(***************************************************************************)
(* Model of src/page/CrossChain/erc20/token.js: the ERC-20 registration    *)
(* and proof-acquisition pipeline of the bridge client.                    *)
(*                                                                         *)
(*   - getTokenRegisterStatus / hasRegistered: status derived from the     *)
(*     backing contract's assets(address) record;                          *)
(*   - registerToken: pre-check, account, symbol probe, send, monitor;     *)
(*   - monitorEventProof: the rxjs pipeline from(api) | map | retryWhen |  *)
(*     switchMap subscribed with proofSubject as its observer;             *)
(*   - proofSubject / proofObservable: the shared rxjs Subject.            *)
(***************************************************************************)
EXTENDS Integers, Sequences, FiniteSets, TLC

(***************************************************************************)
(* Values.  A JavaScript value is a record [kind, value]; kind "throw" is  *)
(* an exception (a rejected promise) in place of a value.                  *)
(***************************************************************************)
Undefined == [kind |-> "undefined", value |-> 0]
Throw == [kind |-> "throw", value |-> 0]
Num(n) == [kind |-> "number", value |-> n]
Bool(b) == [kind |-> "boolean", value |-> IF b THEN 1 ELSE 0]

\* !!v of JavaScript for the kinds above: undefined and 0 are falsy.
Truthy(v) == v.kind \in {"number", "boolean"} /\ v.value # 0

(***************************************************************************)
(* Hexadecimal text.  An address or a target is the sequence of the hex    *)
(* digits that follow "0x"; the empty sequence is the empty string.        *)
(***************************************************************************)
HexDigit == 0..15
AddressHexLen == 40

Zeros(n) == [i \in 1..n |-> 0]
Padded(digits) == Zeros(AddressHexLen - Len(digits)) \o digits

\* The digits without their leading zeros: the canonical numeral of the value.
RECURSIVE StripZeros(_)
StripZeros(h) ==
    IF h = <<>> THEN <<>>
    ELSE IF Head(h) = 0 THEN StripZeros(Tail(h))
    ELSE h

\* BN.toNumber asserts "Number can only safely store up to 53 bits": a
\* numeral of at most 13 hex digits (52 bits), or of 14 digits whose first
\* is 1 (the 53rd bit), converts; any longer numeral throws.
SafeHexDigits == 13
FitsNumber(numeral) ==
    \/ Len(numeral) <= SafeHexDigits
    \/ Len(numeral) = SafeHexDigits + 1 /\ Head(numeral) = 1

\* Web3.utils.hexToNumber(target) = toBN(target).toNumber(); the number is
\* kept as its canonical numeral (it may exceed every machine integer here),
\* <<>> being 0.
hexToNumber(hex) ==
    LET numeral == StripZeros(hex)
    IN  IF FitsNumber(numeral)
        THEN [kind |-> "numeral", value |-> numeral]
        ELSE [kind |-> "throw", value |-> <<>>]

\* +timestamp of a decimal string returned by the contract call.
RECURSIVE DecimalValue(_, _)
DecimalValue(digits, acc) ==
    IF digits = <<>> THEN acc
    ELSE DecimalValue(Tail(digits), acc * 10 + Head(digits))

unaryPlus(digits) == DecimalValue(digits, 0)

(***************************************************************************)
(* Sample data.                                                            *)
(***************************************************************************)
\* Arguments passed as `address`: two well-formed token addresses, a
\* malformed one ("0x123"), the empty string and undefined.
ValidAddresses == {"tokenA", "tokenB"}
MalformedAddresses == {"short", "empty", "undef"}
Addresses == ValidAddresses \cup MalformedAddresses

AddressText(a) ==
    CASE a = "tokenA" -> [i \in 1..AddressHexLen |-> IF i = 1 THEN 1 ELSE 15]
      [] a = "tokenB" -> [i \in 1..AddressHexLen |-> IF i = 1 THEN 11 ELSE 7]
      [] a = "short" -> <<1, 2, 3>>
      [] a = "empty" -> <<>>

\* `target` of an assets record: the zero address, 0xABC (the scenario of
\* the specification), 2^53 - 1, 2^53 and an ordinary 20-byte address.
TargetZero == Zeros(AddressHexLen)
TargetABC == Padded(<<10, 11, 12>>)
TargetMaxSafe == Padded(<<1>> \o [i \in 1..SafeHexDigits |-> 15])
TargetOverSafe == Padded(<<2>> \o Zeros(SafeHexDigits))
TargetMapped == [i \in 1..AddressHexLen |-> IF i = 1 THEN 14 ELSE (i % 16)]
Targets == {TargetZero, TargetABC, TargetMaxSafe, TargetOverSafe, TargetMapped}

\* `timestamp` of an assets record, the decimal string of a uint.
Timestamps == {<<0>>, <<1>>, <<1, 0, 0>>}

RegistrationRecords == [target : Targets, timestamp : Timestamps]
NoRecord == [target |-> TargetZero, timestamp |-> <<0>>]

(***************************************************************************)
(* getTokenRegisterStatus and hasRegistered.                               *)
(***************************************************************************)
\* !address: undefined and "" are falsy.
isFalsy(address) == address = "undef" \/ AddressText(address) = <<>>

\* Web3.utils.isAddress: exactly 40 hex digits (lower case: no checksum).
isAddress(address) == Len(AddressText(address)) = AddressHexLen

Unregistered == 0
Registered == 1
Registering == 2

\* How many times getTokenRegisterStatus calls assets(address) of the
\* backing contract: not at all when it returns early.
assetsReads(address) ==
    IF isFalsy(address) \/ ~isAddress(address) THEN 0 ELSE 1

\* A validity check that throws instead of returning undefined.
getTokenRegisterStatus_ThrowOnInvalid(address, chain) ==
    IF isFalsy(address) \/ ~isAddress(address)
    THEN Throw
    ELSE Num(Unregistered)

\* `chain` is the backing contract's assets mapping.
getTokenRegisterStatus(address, chain) ==
    IF isFalsy(address) \/ ~isAddress(address)
    THEN Undefined
    ELSE LET target == chain[address].target
             timestamp == chain[address].timestamp
             number == hexToNumber(target)
         IN  IF number.kind = "throw"
             THEN Throw
             ELSE LET isTargetTruthy == number.value # <<>>
                      isTimestampExist == unaryPlus(timestamp) > 0
                  IN  IF isTimestampExist /\ ~isTargetTruthy
                      THEN Num(Registering)
                      ELSE IF isTimestampExist /\ isTargetTruthy
                      THEN Num(Registered)
                      ELSE Num(Unregistered)

\* hasRegistered written as `status !== 0`.
hasRegistered_NotZero(address, chain) ==
    LET status == getTokenRegisterStatus(address, chain)
    IN  IF status.kind = "throw" THEN Throw
        ELSE Bool(status # Num(Unregistered))

hasRegistered(address, chain) ==
    LET status == getTokenRegisterStatus(address, chain)
    IN  IF status.kind = "throw" THEN Throw ELSE Bool(Truthy(status))

(***************************************************************************)
(* Bounds and program constants of the pipeline.                           *)
(***************************************************************************)
MaxAttempts == 3        \* subscriptions of one monitor to its source
TimeStep == 1500        \* the longest stretch of time one Tick lets pass
RetryDelay == 3000      \* delay(3000) of retryWhen

Calls == {1, 2}         \* registerToken invocations
Subscribers == {1, 2}   \* subscribers of proofObservable

VARIABLES
    assets,     \* backing contract: [ValidAddresses -> RegistrationRecords]
    probe,      \* a direct status query: [pc, address, status, registered]
    call,       \* [Calls -> a registerToken invocation]
    mon,        \* [Calls -> the monitorEventProof pipeline of that call]
    indexed,    \* [ValidAddresses -> BOOLEAN]: the indexer has the record
    subject,    \* proofSubject: [isStopped, hasError, observers]
    sub,        \* [Subscribers -> [state, received]] of proofObservable
    transfer,   \* a crossSendErc20FromDvmToEth invocation
    catalog     \* a getAllTokens invocation

vars == <<assets, probe, call, mon, indexed, subject, sub, transfer, catalog>>
pipeline == <<call, mon, indexed, subject, sub>>
direct == <<probe, transfer, catalog>>

ProbeIdle == [pc |-> "idle", address |-> "undef",
              status |-> Undefined, reads |-> 0, registered |-> Undefined]

\* What getSymbolType returned, and what its two calls answered.
NoSymbolType == [kind |-> "none", symbol |-> "none", isString |-> FALSE]
NotProbed == [string |-> "none", fallback |-> "none"]

\* `register` is the method whose send is in flight, `symbolType` and
\* `probed` the symbol probe it follows from; `sent` tells that a send was
\* invoked; `error` names the awaited call whose rejection ended the call.
CallIdle == [pc |-> "idle", address |-> "undef", status |-> Undefined,
             symbolType |-> NoSymbolType, probed |-> NotProbed,
             register |-> "none", sent |-> FALSE, outcome |-> "none",
             error |-> "none"]

MonNone == [state |-> "none", api |-> "none", proof |-> "none",
            queries |-> 0, attempts |-> 0, fetches |-> 0, nexts |-> 0,
            accepted |-> FALSE, timer |-> 0]

\* No crossSendErc20FromDvmToEth invocation under way. `created` lists the
\* crossTransfer transaction objects built, `connected` the network id the
\* wallet reported to isNetworkMatch.
TransferIdle == [pc |-> "idle", tokenAddress |-> "undef",
                 recipientAddress |-> "undef", amount |-> Undefined,
                 connected |-> Undefined, isMatch |-> Undefined,
                 created |-> <<>>, outcome |-> "none", error |-> "none"]

\* No lookup issued yet by getAllTokens.
NoLookups == [assetLength |-> 0, allAssets |-> 0, tokenLength |-> 0,
              allTokens |-> 0, tokenToInfo |-> 0, tokenInfoGetter |-> 0,
              getNameAndLogo |-> 0, getTokenBalance |-> 0]

\* No getAllTokens invocation under way. `task` are the per-index async
\* functions handed to Promise.all, `tokens` the values they fulfilled with,
\* by index, `completed` the indices in the order they fulfilled, `lookups`
\* the number of calls issued to each collaborator.
CatalogIdle == [pc |-> "idle", currentAccount |-> "undef",
                networkType |-> "undef", length |-> <<>>,
                task |-> <<>>, tokens |-> <<>>, completed |-> <<>>,
                lookups |-> NoLookups, result |-> <<>>, outcome |-> "none"]

InitPipeline ==
    /\ call = [c \in Calls |-> CallIdle]
    /\ mon = [c \in Calls |-> MonNone]
    /\ indexed = [a \in ValidAddresses |-> FALSE]
    /\ subject = [isStopped |-> FALSE, hasError |-> FALSE, observers |-> {}]
    /\ sub = [s \in Subscribers |-> [state |-> "idle", received |-> <<>>]]

(***************************************************************************)
(* The status queries on their own: any assets records, any argument.      *)
(***************************************************************************)
InitStatus ==
    /\ assets \in [ValidAddresses -> RegistrationRecords]
    /\ probe = ProbeIdle
    /\ InitPipeline
    /\ transfer = TransferIdle
    /\ catalog = CatalogIdle

\* A caller awaits getTokenRegisterStatus(address) and hasRegistered(address)
\* against the same contract state.
Probe(address) ==
    /\ probe.pc = "idle"
    /\ probe' = [pc |-> "done", address |-> address,
                 status |-> getTokenRegisterStatus(address, assets),
                 reads |-> assetsReads(address),
                 registered |-> hasRegistered(address, assets)]
    /\ UNCHANGED <<assets, pipeline, transfer, catalog>>

NextStatus == \E address \in Addresses : Probe(address)

SpecStatus == InitStatus /\ [][NextStatus]_vars

(***************************************************************************)
(* registerToken: one action per await.                                    *)
(***************************************************************************)
Finish(c, outcome) ==
    call' = [call EXCEPT ![c].pc = "done", ![c].outcome = outcome,
                         ![c].register = "none",
                         ![c].symbolType = NoSymbolType,
                         ![c].probed = NotProbed]

\* An awaited call rejects: nothing catches it, registerToken rejects with
\* the same error.
Reject(c, callee) ==
    call' = [call EXCEPT ![c].pc = "done", ![c].outcome = "rejected",
                         ![c].error = callee,
                         ![c].register = "none",
                         ![c].symbolType = NoSymbolType,
                         ![c].probed = NotProbed]

\* registerToken(address) is invoked and awaits hasRegistered(address).
RegisterCall(c, address) ==
    /\ call[c].pc = "idle"
    /\ \A d \in Calls : d < c => call[d].pc # "idle"
    /\ call' = [call EXCEPT ![c].pc = "hasRegistered", ![c].address = address]
    /\ UNCHANGED <<assets, direct, mon, indexed, subject, sub>>

\* The pre-check dropped: every call goes on to register.
shouldRegister_Always(isRegistered) == TRUE

\* if (!isRegistered)
shouldRegister(isRegistered) == ~Truthy(isRegistered)

\* A pre-check that also looks at the other calls: a registration of the
\* same address already under way counts as registered.
StatusResolve_Locked(c) ==
    /\ call[c].pc = "hasRegistered"
    /\ LET address == call[c].address
           status == getTokenRegisterStatus(address, assets)
           isRegistered == hasRegistered(address, assets)
           underWay == \E d \in Calls \ {c} :
                          /\ call[d].address = address
                          /\ call[d].pc \in {"getAccount", "getSymbolType",
                                             "send"}
           proceeds == /\ isRegistered.kind # "throw"
                       /\ shouldRegister(isRegistered)
                       /\ ~underWay
       IN  call' = [call EXCEPT
                ![c].status = status,
                ![c].pc = IF proceeds THEN "getAccount" ELSE "done",
                ![c].outcome = IF isRegistered.kind = "throw" THEN "rejected"
                               ELSE IF proceeds THEN "none"
                               ELSE "nothing",
                ![c].error = IF isRegistered.kind = "throw"
                             THEN "hasRegistered" ELSE "none"]
    /\ UNCHANGED <<assets, direct, mon, indexed, subject, sub>>

\* hasRegistered resolves against the contract's current record.
StatusResolve(c) ==
    /\ call[c].pc = "hasRegistered"
    /\ LET address == call[c].address
           status == getTokenRegisterStatus(address, assets)
           isRegistered == hasRegistered(address, assets)
       IN  call' = [call EXCEPT
                ![c].status = status,
                ![c].pc = IF isRegistered.kind # "throw"
                             /\ shouldRegister(isRegistered)
                          THEN "getAccount" ELSE "done",
                ![c].outcome = IF isRegistered.kind = "throw" THEN "rejected"
                               ELSE IF shouldRegister(isRegistered) THEN "none"
                               ELSE "nothing",
                ![c].error = IF isRegistered.kind = "throw"
                             THEN "hasRegistered" ELSE "none"]
    /\ UNCHANGED <<assets, direct, mon, indexed, subject, sub>>

\* getMetamaskActiveAccount() resolves or rejects.
AccountResolve(c, ok) ==
    /\ call[c].pc = "getAccount"
    /\ IF ok
       THEN call' = [call EXCEPT ![c].pc = "getSymbolType"]
       ELSE Reject(c, "getMetamaskActiveAccount")
    /\ UNCHANGED <<assets, direct, mon, indexed, subject, sub>>

\* What a symbol call answers: a symbol, or "throw".
StringSymbols == {"DAI"}        \* stringContract.methods.symbol().call()
FallbackSymbols == {"MKR"}      \* getSymbolAndDecimals(address)
StringCalls == StringSymbols \cup {"throw"}
FallbackCalls == FallbackSymbols \cup {"throw"}

\* getSymbolType that reports every symbol as a string.
getSymbolType_AlwaysString(stringCall, fallbackCall) ==
    IF stringCall # "throw"
    THEN [kind |-> "value", symbol |-> stringCall, isString |-> TRUE]
    ELSE IF fallbackCall # "throw"
    THEN [kind |-> "value", symbol |-> fallbackCall, isString |-> TRUE]
    ELSE [kind |-> "throw", symbol |-> "none", isString |-> FALSE]

\* getSymbolType: the string-typed symbol() call, and on its failure the
\* fallback getSymbolAndDecimals, whose failure is not caught.
getSymbolType(stringCall, fallbackCall) ==
    IF stringCall # "throw"
    THEN [kind |-> "value", symbol |-> stringCall, isString |-> TRUE]
    ELSE IF fallbackCall # "throw"
    THEN [kind |-> "value", symbol |-> fallbackCall, isString |-> FALSE]
    ELSE [kind |-> "throw", symbol |-> "none", isString |-> FALSE]

\* isString ? registerToken : registerTokenBytes32
registerMethod(isString) ==
    IF isString THEN "registerToken" ELSE "registerTokenBytes32"

\* getSymbolType resolves; on success register(address).send({ from }) is
\* invoked: the registration transaction is submitted.
SymbolResolve(c, stringCall, fallbackCall) ==
    /\ call[c].pc = "getSymbolType"
    /\ LET symbolType == getSymbolType(stringCall, fallbackCall)
       IN  IF symbolType.kind = "throw"
           THEN call' = [call EXCEPT
                    ![c].pc = "done", ![c].outcome = "rejected",
                    ![c].error = "getSymbolType",
                    ![c].probed = [string |-> stringCall,
                                   fallback |-> fallbackCall]]
           ELSE call' = [call EXCEPT
                    ![c].pc = "send", ![c].sent = TRUE,
                    ![c].symbolType = symbolType,
                    ![c].probed = [string |-> stringCall,
                                   fallback |-> IF stringCall = "throw"
                                                THEN fallbackCall
                                                ELSE "none"],
                    ![c].register = registerMethod(symbolType.isString)]
    /\ UNCHANGED <<assets, direct, mon, indexed, subject, sub>>

\* monitorEventProof(address): axios.get is issued once, and the pipeline is
\* subscribed with proofSubject as its observer.
monitorEventProof ==
    [MonNone EXCEPT !.state = "requesting", !.api = "pending",
                    !.queries = 1, !.attempts = 1]

\* Monitoring begun whether the send resolved or not.
SendResolve_MonitorAnyway(c, ok) ==
    /\ call[c].pc = "send"
    /\ IF ok THEN Finish(c, "subscription") ELSE Reject(c, "send")
    /\ mon' = [mon EXCEPT ![c] = monitorEventProof]
    /\ UNCHANGED <<assets, direct, indexed, subject, sub>>

\* The send resolves (monitoring begins, its subscription is returned) or
\* rejects.
SendResolve(c, ok) ==
    /\ call[c].pc = "send"
    /\ IF ok
       THEN /\ Finish(c, "subscription")
            /\ mon' = [mon EXCEPT ![c] = monitorEventProof]
       ELSE /\ Reject(c, "send")
            /\ UNCHANGED mon
    /\ UNCHANGED <<assets, direct, indexed, subject, sub>>

(***************************************************************************)
(* proofSubject, an rxjs Subject.                                          *)
(***************************************************************************)
\* A subject that keeps the subscribers that unsubscribed in its list.
SubjectNext_KeepingUnsubscribed(subs, event) ==
    [s \in Subscribers |->
        IF ~subject.isStopped /\ subs[s].state \in {"active", "unsubscribed"}
        THEN [subs[s] EXCEPT !.received = Append(@, event)]
        ELSE subs[s]]

\* Subject.next: delivered to the current observers unless stopped.
SubjectNext(subs, event) ==
    [s \in Subscribers |->
        IF ~subject.isStopped /\ s \in subject.observers
        THEN [subs[s] EXCEPT !.received = Append(@, event)]
        ELSE subs[s]]

\* Subject.complete / Subject.error: the observers are notified and
\* dropped, and the subject is stopped for good.
SubjectStop(subs, how) ==
    [s \in Subscribers |->
        IF ~subject.isStopped /\ s \in subject.observers
        THEN [subs[s] EXCEPT !.state = how]
        ELSE subs[s]]

\* A subject that a completion or an error leaves open.
SubjectStopped_StaysOpen(failed) == subject

SubjectStopped(failed) ==
    IF subject.isStopped THEN subject
    ELSE [isStopped |-> TRUE, hasError |-> failed, observers |-> {}]

\* proofObservable.subscribe(...): Subject._subscribe.
BusSubscribe(s) ==
    /\ sub[s].state = "idle"
    /\ \A t \in Subscribers : t < s => sub[t].state # "idle"
    /\ IF subject.hasError
       THEN /\ sub' = [sub EXCEPT ![s].state = "errored"]
            /\ UNCHANGED subject
       ELSE IF subject.isStopped
       THEN /\ sub' = [sub EXCEPT ![s].state = "completed"]
            /\ UNCHANGED subject
       ELSE /\ sub' = [sub EXCEPT ![s].state = "active"]
            /\ subject' = [subject EXCEPT !.observers = @ \cup {s}]
    /\ UNCHANGED <<assets, direct, call, mon, indexed>>

\* A subscriber of proofObservable unsubscribes.
BusUnsubscribe(s) ==
    /\ sub[s].state = "active"
    /\ sub' = [sub EXCEPT ![s].state = "unsubscribed"]
    /\ subject' = [subject EXCEPT !.observers = @ \ {s}]
    /\ UNCHANGED <<assets, direct, call, mon, indexed>>

(***************************************************************************)
(* monitorEventProof: from(api) | map | retryWhen(delay) | switchMap.      *)
(***************************************************************************)
\* What the pipeline does with an emission of from(api): a truthy record
\* passes map and switchMap calls getMPTProof(block_hash, proofAddress);
\* null (map throws) or a rejection goes to retryWhen, which schedules the
\* resubscription after the delay.
\* map without its null check: every response goes on to switchMap.
React_NoNullCheck(m, response) ==
    [m EXCEPT !.state = "fetching", !.proof = "pending", !.fetches = @ + 1]

\* Without retryWhen: a failed poll is the error of the pipeline.
React_NoRetry(m, response) ==
    IF response = "record"
    THEN [m EXCEPT !.state = "fetching", !.proof = "pending",
                   !.fetches = @ + 1]
    ELSE [m EXCEPT !.state = "failed"]

React(m, response) ==
    IF response = "record"
    THEN [m EXCEPT !.state = "fetching", !.proof = "pending",
                   !.fetches = @ + 1]
    ELSE [m EXCEPT !.state = "delaying", !.timer = RetryDelay]

\* The indexer's answer at the time it serves the request.
IndexerResponse(address, available) ==
    IF ~available THEN "rejected"
    ELSE IF address \in ValidAddresses /\ indexed[address] THEN "record"
    ELSE "null"

\* from(api) when the promise settles: the emission reaches the pipeline
\* unless its subscriber is closed (unsubscribed), which ignores it.
Settle_IgnoringClosed(m, response) ==
    React([m EXCEPT !.api = response], response)

Settle(m, response) ==
    IF m.state = "requesting"
    THEN React([m EXCEPT !.api = response], response)
    ELSE [m EXCEPT !.api = "ignored"]

\* The axios promise settles.
ApiResolve(c, available) ==
    /\ mon[c].api = "pending"
    /\ mon' = [mon EXCEPT ![c] =
            Settle(mon[c], IndexerResponse(call[c].address, available))]
    /\ UNCHANGED <<assets, direct, call, indexed, subject, sub>>

\* retryWhen resubscribes to from(api): `api` is the promise made once, on
\* entry, so the subscription attaches to the settled promise and no
\* request is sent.
Resubscribe(m) == [m EXCEPT !.attempts = @ + 1]

\* The delay has elapsed: the pipeline resubscribes and the settled promise
\* emits what it settled with.
RetryFire(c) ==
    /\ mon[c].state = "delaying"
    /\ mon[c].timer = 0
    /\ mon[c].attempts < MaxAttempts
    /\ mon' = [mon EXCEPT ![c] = React(Resubscribe(mon[c]), mon[c].api)]
    /\ UNCHANGED <<assets, direct, call, indexed, subject, sub>>

\* The inner from(getMPTProof(...)) of switchMap emits the proof and
\* completes; the source has completed already, so the pipeline completes.
OnProof(m) ==
    [m EXCEPT !.proof = "resolved", !.state = "delivered", !.nexts = @ + 1,
              !.accepted = ~subject.isStopped]

\* retryWhen placed after switchMap: a failed proof fetch is retried too.
OnProofError_Retried(m) ==
    [m EXCEPT !.proof = "rejected", !.state = "delaying", !.api = "record",
              !.timer = RetryDelay]

\* switchMap comes after retryWhen: an error of the inner observable is
\* the error of the pipeline.
OnProofError(m) == [m EXCEPT !.proof = "rejected", !.state = "failed"]

\* getMPTProof settles: the proof goes to proofSubject.next and the
\* completion to proofSubject.complete, or the error to proofSubject.error.
\* An unsubscribed pipeline ignores it.
ProofResolve(c, ok) ==
    /\ mon[c].proof = "pending"
    /\ IF mon[c].state # "fetching"
       THEN /\ mon' = [mon EXCEPT ![c].proof = "ignored"]
            /\ UNCHANGED <<subject, sub>>
       ELSE IF ok
       THEN /\ mon' = [mon EXCEPT ![c] = OnProof(mon[c])]
            /\ sub' = SubjectStop(SubjectNext(sub, c), "completed")
            /\ subject' = SubjectStopped(FALSE)
       ELSE /\ mon' = [mon EXCEPT ![c] = OnProofError(mon[c])]
            /\ sub' = SubjectStop(sub, "errored")
            /\ subject' = SubjectStopped(TRUE)
    /\ UNCHANGED <<assets, direct, call, indexed>>

\* The caller unsubscribes the subscription registerToken returned.
Unsubscribe(c) ==
    /\ mon[c].state \in {"requesting", "delaying", "fetching"}
    /\ mon' = [mon EXCEPT ![c].state = "unsubscribed", ![c].timer = 0]
    /\ UNCHANGED <<assets, direct, call, indexed, subject, sub>>

\* Time passes, up to the next retry that is due.
Waiting == {c \in Calls : mon[c].state = "delaying" /\ mon[c].timer > 0}
Due == {c \in Calls : /\ mon[c].state = "delaying"
                      /\ mon[c].timer = 0
                      /\ mon[c].attempts < MaxAttempts}

Min(S) == CHOOSE x \in S : \A y \in S : x <= y

Tick ==
    /\ Waiting # {}
    /\ Due = {}
    /\ LET d == Min({TimeStep} \cup {mon[c].timer : c \in Waiting})
       IN  mon' = [c \in Calls |->
                IF c \in Waiting THEN [mon[c] EXCEPT !.timer = @ - d]
                ELSE mon[c]]
    /\ UNCHANGED <<assets, direct, call, indexed, subject, sub>>

(***************************************************************************)
(* The chains and the indexer.                                             *)
(***************************************************************************)
\* A submitted registration of `address` is mined on the backing contract.
ChainMine(address) ==
    /\ \E c \in Calls : call[c].sent /\ call[c].address = address
    /\ assets[address].timestamp = <<0>>
    /\ assets' = [assets EXCEPT ![address].timestamp = <<1, 0, 0>>]
    /\ UNCHANGED <<direct, pipeline>>

\* The destination chain's linkage is recorded as the target, by
\* crossChainSync(proof) with the proof of the block the indexer reported.
ChainLink(address, target) ==
    /\ assets[address].timestamp # <<0>>
    /\ indexed[address]
    /\ assets[address].target = TargetZero
    /\ assets' = [assets EXCEPT ![address].target = target]
    /\ UNCHANGED <<direct, pipeline>>

\* The indexer has observed the registration of `address`.
IndexerIndex(address) ==
    /\ assets[address].timestamp # <<0>>
    /\ ~indexed[address]
    /\ indexed' = [indexed EXCEPT ![address] = TRUE]
    /\ UNCHANGED <<assets, direct, call, mon, subject, sub>>

RegisterArguments == ValidAddresses \cup {"short"}

Init ==
    /\ assets = [a \in ValidAddresses |-> NoRecord]
    /\ probe = ProbeIdle
    /\ InitPipeline
    /\ transfer = TransferIdle
    /\ catalog = CatalogIdle

Next ==
    \/ \E c \in Calls, address \in RegisterArguments : RegisterCall(c, address)
    \/ \E c \in Calls : StatusResolve(c)
    \/ \E c \in Calls, ok \in BOOLEAN : AccountResolve(c, ok)
    \/ \E c \in Calls, stringCall \in StringCalls,
          fallbackCall \in FallbackCalls :
            SymbolResolve(c, stringCall, fallbackCall)
    \/ \E c \in Calls, ok \in BOOLEAN : SendResolve(c, ok)
    \/ \E c \in Calls, available \in BOOLEAN : ApiResolve(c, available)
    \/ \E c \in Calls : RetryFire(c)
    \/ \E c \in Calls, ok \in BOOLEAN : ProofResolve(c, ok)
    \/ \E c \in Calls : Unsubscribe(c)
    \/ Tick
    \/ \E s \in Subscribers : BusSubscribe(s)
    \/ \E s \in Subscribers : BusUnsubscribe(s)
    \/ \E address \in ValidAddresses : ChainMine(address)
    \/ \E address \in ValidAddresses, target \in {TargetABC, TargetMapped} :
            ChainLink(address, target)
    \/ \E address \in ValidAddresses : IndexerIndex(address)

Spec == Init /\ [][Next]_vars

(***************************************************************************)
(* The pipeline under fair scheduling.  Spec counts the retries of a       *)
(* monitor up to MaxAttempts; here the retries go on after that, uncounted, *)
(* as retryWhen has no limit.                                              *)
(***************************************************************************)
\* A retry after the counted ones: the same resubscription to from(api).
RetryReplay(c) ==
    /\ mon[c].state = "delaying"
    /\ mon[c].timer = 0
    /\ mon[c].attempts = MaxAttempts
    /\ mon' = [mon EXCEPT ![c] = React(mon[c], mon[c].api)]
    /\ UNCHANGED <<assets, direct, call, indexed, subject, sub>>

\* One registerToken call and its monitor, with the subscribers and the
\* environment of Spec.
LiveCall == 1

NextLive ==
    \/ \E address \in RegisterArguments : RegisterCall(LiveCall, address)
    \/ StatusResolve(LiveCall)
    \/ \E ok \in BOOLEAN : AccountResolve(LiveCall, ok)
    \/ \E stringCall \in StringCalls, fallbackCall \in FallbackCalls :
            SymbolResolve(LiveCall, stringCall, fallbackCall)
    \/ \E ok \in BOOLEAN : SendResolve(LiveCall, ok)
    \/ \E available \in BOOLEAN : ApiResolve(LiveCall, available)
    \/ RetryFire(LiveCall)
    \/ RetryReplay(LiveCall)
    \/ \E ok \in BOOLEAN : ProofResolve(LiveCall, ok)
    \/ Unsubscribe(LiveCall)
    \/ Tick
    \/ \E s \in Subscribers : BusSubscribe(s)
    \/ \E s \in Subscribers : BusUnsubscribe(s)
    \/ \E address \in ValidAddresses : ChainMine(address)
    \/ \E address \in ValidAddresses, target \in {TargetABC, TargetMapped} :
            ChainLink(address, target)
    \/ \E address \in ValidAddresses : IndexerIndex(address)

\* Every pending promise settles, every elapsed timer fires, time passes,
\* and the indexer catches up with the chain.  What callers do (register,
\* subscribe, unsubscribe) is left to them.
Fairness ==
    /\ WF_vars(StatusResolve(LiveCall))
    /\ WF_vars(\E ok \in BOOLEAN : AccountResolve(LiveCall, ok))
    /\ WF_vars(\E stringCall \in StringCalls,
                  fallbackCall \in FallbackCalls :
                    SymbolResolve(LiveCall, stringCall, fallbackCall))
    /\ WF_vars(\E ok \in BOOLEAN : SendResolve(LiveCall, ok))
    /\ WF_vars(\E available \in BOOLEAN : ApiResolve(LiveCall, available))
    /\ WF_vars(RetryFire(LiveCall))
    /\ WF_vars(RetryReplay(LiveCall))
    /\ WF_vars(\E ok \in BOOLEAN : ProofResolve(LiveCall, ok))
    /\ WF_vars(Tick)
    /\ \A address \in ValidAddresses :
        /\ WF_vars(ChainMine(address))
        /\ WF_vars(IndexerIndex(address))

SpecLive == Init /\ [][NextLive]_vars /\ Fairness

(***************************************************************************)
(* crossSendErc20FromDvmToEth on its own.                                  *)
(***************************************************************************)
DVM_NETWORK_ID == 43            \* config.DVM_NETWORK_ID, pangolin
Networks == {1, DVM_NETWORK_ID, 44}
Recipients == {"alice", "bob"}
Amounts == {Num(0), Num(7), Num(120), Undefined}

\* isNetworkMatch(expectNetworkId) of ../utils: whether the network the
\* wallet is connected to is the expected one.
isNetworkMatch(expectNetworkId, connected) == connected = expectNetworkId

RECURSIVE Digits(_)
Digits(n) == IF n < 10 THEN <<n>> ELSE Append(Digits(n \div 10), n % 10)

\* amount.toString(): the decimal text of a number, a TypeError on undefined.
toString(amount) ==
    IF amount.kind = "number"
    THEN [kind |-> "string", value |-> Digits(amount.value)]
    ELSE Throw

TransferCall(tokenAddress, recipientAddress, amount) ==
    /\ transfer.pc = "idle"
    /\ transfer' = [transfer EXCEPT !.pc = "isNetworkMatch",
                                    !.tokenAddress = tokenAddress,
                                    !.recipientAddress = recipientAddress,
                                    !.amount = amount]
    /\ UNCHANGED <<assets, probe, pipeline, catalog>>

TransferReject(error) ==
    [transfer EXCEPT !.pc = "done", !.outcome = "rejected", !.error = error]

\* The transaction object built before the network is looked at.
NetworkResolve_CreateFirst(connected, ok) ==
    /\ transfer.pc = "isNetworkMatch"
    /\ transfer' =
         IF ~ok THEN TransferReject("isNetworkMatch")
         ELSE LET isMatch == isNetworkMatch(DVM_NETWORK_ID, connected)
                  text == toString(transfer.amount)
                  checked == [transfer EXCEPT !.connected = Num(connected),
                                              !.isMatch = Bool(isMatch)]
              IN  IF text.kind = "throw"
                  THEN [checked EXCEPT !.pc = "done", !.outcome = "rejected",
                                       !.error = "TypeError"]
                  ELSE IF isMatch
                  THEN [checked EXCEPT
                          !.pc = "crossTransfer",
                          !.created = Append(@,
                              [method |-> "crossTransfer",
                               arguments |-> <<transfer.tokenAddress,
                                               transfer.recipientAddress,
                                               text.value>>])]
                  ELSE [checked EXCEPT
                          !.pc = "done", !.outcome = "rejected",
                          !.error = "NetworkMismatch",
                          !.created = Append(@,
                              [method |-> "crossTransfer",
                               arguments |-> <<transfer.tokenAddress,
                                               transfer.recipientAddress,
                                               text.value>>])]
    /\ UNCHANGED <<assets, probe, pipeline, catalog>>

\* await isNetworkMatch(config.DVM_NETWORK_ID) settles, and the branch on
\* isMatch runs: the transaction object is built, or the error is thrown.
NetworkResolve(connected, ok) ==
    /\ transfer.pc = "isNetworkMatch"
    /\ transfer' =
         IF ~ok THEN TransferReject("isNetworkMatch")
         ELSE LET isMatch == isNetworkMatch(DVM_NETWORK_ID, connected)
                  text == toString(transfer.amount)
                  checked == [transfer EXCEPT !.connected = Num(connected),
                                              !.isMatch = Bool(isMatch)]
              IN  IF ~isMatch
                  THEN [checked EXCEPT !.pc = "done", !.outcome = "rejected",
                                       !.error = "NetworkMismatch"]
                  ELSE IF text.kind = "throw"
                  THEN [checked EXCEPT !.pc = "done", !.outcome = "rejected",
                                       !.error = "TypeError"]
                  ELSE [checked EXCEPT
                          !.pc = "crossTransfer",
                          !.created = Append(@,
                              [method |-> "crossTransfer",
                               arguments |-> <<transfer.tokenAddress,
                                               transfer.recipientAddress,
                                               text.value>>])]
    /\ UNCHANGED <<assets, probe, pipeline, catalog>>

\* await result; return result
TransferReturn ==
    /\ transfer.pc = "crossTransfer"
    /\ transfer' = [transfer EXCEPT !.pc = "done", !.outcome = "returned"]
    /\ UNCHANGED <<assets, probe, pipeline, catalog>>

NextTransfer ==
    \/ \E tokenAddress \in Addresses, recipientAddress \in Recipients,
          amount \in Amounts :
            TransferCall(tokenAddress, recipientAddress, amount)
    \/ \E connected \in Networks, ok \in BOOLEAN :
            NetworkResolve(connected, ok)
    \/ TransferReturn

SpecTransfer == Init /\ [][NextTransfer]_vars

(***************************************************************************)
(* getAllTokens on its own.                                                *)
(***************************************************************************)
MaxTokens == 2

\* currentAccount: undefined, the empty string, and an account ("0x123":
\* getAllTokens does not validate it).
Accounts == {"undef", "empty", "short"}
\* networkType: omitted (the default "eth" applies), "eth", "dvm".
NetworkTypes == {"undef", "eth", "dvm"}

\* The contracts' contents: allTokens of the mapping contract, its
\* tokenToInfo, allAssets of the backing contract.
DvmTokens == <<"dvmB", "dvmA", "dvmC">>
EthAssets == <<"srcC", "srcA", "srcB">>
TokenToInfo(address) ==
    CASE address = "dvmA" -> [source |-> "srcA", backing |-> "backing"]
      [] address = "dvmB" -> [source |-> "srcB", backing |-> "backing"]
      [] address = "dvmC" -> [source |-> "srcC", backing |-> "backing"]

\* What tokenInfoGetter, getNameAndLogo and getTokenBalance of ./token-util
\* answer; tokenInfoGetter may leave symbol or decimals out.
TokenInfoAnswer(address) ==
    CASE address = "srcA" -> [symbol |-> "DAI", decimals |-> 18]
      [] address = "srcB" -> [decimals |-> 6]
      [] address = "srcC" -> [symbol |-> "KTON"]
NameAndLogo(address) ==
    CASE address = "srcA" -> [name |-> "Dai", logo |-> "dai.png"]
      [] address = "srcB" -> [name |-> "Tether", logo |-> "usdt.png"]
      [] address = "srcC" -> [name |-> "Kton", logo |-> "kton.png"]
TokenBalance(address) ==
    CASE address = "srcA" -> 5
      [] address = "srcB" -> 0
      [] address = "srcC" -> 12

\* const { symbol = "", decimals = 0 } = ...
withDefault(object, key, default) ==
    IF key \in DOMAIN object THEN object[key] ELSE default

\* { ...info, ...token }
Spread(info, token) ==
    [key \in DOMAIN info \cup DOMAIN token |->
        IF key \in DOMAIN token THEN token[key] ELSE info[key]]

\* The object getTokenInfo returns.
getTokenInfo(tokenAddress, meta, nameAndLogo, balance) ==
    [address |-> tokenAddress,
     symbol |-> withDefault(meta, "symbol", ""),
     decimals |-> withDefault(meta, "decimals", 0),
     name |-> nameAndLogo.name,
     logo |-> nameAndLogo.logo,
     balance |-> balance]

isEth(networkType) == networkType \in {"undef", "eth"}

Issue(lookups, kind, n) == [lookups EXCEPT ![kind] = @ + n]

\* getAllTokens without the account guard.
CatalogCall_NoAccountCheck(currentAccount, networkType) ==
    /\ catalog.pc = "idle"
    /\ catalog' = [catalog EXCEPT
            !.pc = "length",
            !.currentAccount = currentAccount,
            !.networkType = networkType,
            !.lookups = Issue(@, IF isEth(networkType) THEN "assetLength"
                                 ELSE "tokenLength", 1)]
    /\ UNCHANGED <<assets, probe, pipeline, transfer>>

\* getAllTokens is invoked: without an account it returns [] at once,
\* otherwise the length of the chain's token list is asked for.
CatalogCall(currentAccount, networkType) ==
    /\ catalog.pc = "idle"
    /\ catalog' =
         IF isFalsy(currentAccount)
         THEN [catalog EXCEPT !.pc = "done", !.outcome = "returned",
                              !.currentAccount = currentAccount,
                              !.networkType = networkType,
                              !.result = <<>>]
         ELSE [catalog EXCEPT
                 !.pc = "length",
                 !.currentAccount = currentAccount,
                 !.networkType = networkType,
                 !.lookups = Issue(@, IF isEth(networkType) THEN "assetLength"
                                      ELSE "tokenLength", 1)]
    /\ UNCHANGED <<assets, probe, pipeline, transfer>>

TaskStart == [pc |-> "address", address |-> "none", source |-> "none"]
\* The place of a promise that has not fulfilled yet.
Pending == [address |-> "pending"]

\* The length call settles: new Array(+length).fill(0).map(async ...) runs
\* every async function up to its first await, so all the address lookups
\* are issued.
LengthResolve(n, ok) ==
    /\ catalog.pc = "length"
    /\ catalog' =
         IF ~ok
         THEN [catalog EXCEPT !.pc = "done", !.outcome = "rejected"]
         ELSE LET length == Digits(n)
                  count == unaryPlus(length)
              IN  [catalog EXCEPT
                     !.pc = "tokens",
                     !.length = length,
                     !.task = [index \in 0..(count - 1) |-> TaskStart],
                     !.tokens = [index \in 0..(count - 1) |-> Pending],
                     !.lookups = Issue(@, IF isEth(catalog.networkType)
                                          THEN "allAssets" ELSE "allTokens",
                                       count)]
    /\ UNCHANGED <<assets, probe, pipeline, transfer>>

\* allAssets(index) / allTokens(index) settles for one index.
AddressResolve(index) ==
    /\ index \in DOMAIN catalog.task
    /\ catalog.task[index].pc = "address"
    /\ catalog' =
         IF isEth(catalog.networkType)
         THEN [catalog EXCEPT
                 !.task[index].pc = "tokenInfoGetter",
                 !.task[index].address = EthAssets[index + 1],
                 !.task[index].source = EthAssets[index + 1],
                 !.lookups = Issue(@, "tokenInfoGetter", 1)]
         ELSE [catalog EXCEPT
                 !.task[index].pc = "tokenToInfo",
                 !.task[index].address = DvmTokens[index + 1],
                 !.lookups = Issue(@, "tokenToInfo", 1)]
    /\ UNCHANGED <<assets, probe, pipeline, transfer>>

\* tokenToInfo(address) settles: getTokenInfo(info.source, currentAccount)
\* starts with tokenInfoGetter.
InfoResolve(index) ==
    /\ index \in DOMAIN catalog.task
    /\ catalog.task[index].pc = "tokenToInfo"
    /\ catalog' = [catalog EXCEPT
            !.task[index].pc = "tokenInfoGetter",
            !.task[index].source = TokenToInfo(catalog.task[index].address).source,
            !.lookups = Issue(@, "tokenInfoGetter", 1)]
    /\ UNCHANGED <<assets, probe, pipeline, transfer>>

\* Promise.all stores a fulfilled value at the index of its promise.
\* This one stores it at the next free place.
PromiseAllFulfil_InCompletionOrder(tokens, completed, index, value) ==
    [tokens EXCEPT ![Len(completed)] = value]

PromiseAllFulfil(tokens, completed, index, value) ==
    [tokens EXCEPT ![index] = value]

\* The value the async function of one index fulfils with.
TaskValue(index, balance) ==
    LET task == catalog.task[index]
        token == getTokenInfo(task.source, TokenInfoAnswer(task.source),
                              NameAndLogo(task.source), balance)
    IN  IF isEth(catalog.networkType) THEN token
        ELSE Spread(TokenToInfo(task.address), token)

TaskFulfil(index, balance) ==
    [catalog EXCEPT
        !.task[index].pc = "done",
        !.tokens = PromiseAllFulfil(@, catalog.completed, index,
                                    TaskValue(index, balance)),
        !.completed = Append(@, index)]

\* tokenInfoGetter settles; getNameAndLogo is called; the balance is asked
\* for when there is an account, and is toBN(0) otherwise.
MetaResolve(index) ==
    /\ index \in DOMAIN catalog.task
    /\ catalog.task[index].pc = "tokenInfoGetter"
    /\ catalog' =
         IF isFalsy(catalog.currentAccount)
         THEN [TaskFulfil(index, 0) EXCEPT
                 !.lookups = Issue(@, "getNameAndLogo", 1)]
         ELSE [catalog EXCEPT
                 !.task[index].pc = "getTokenBalance",
                 !.lookups = Issue(Issue(@, "getNameAndLogo", 1),
                                   "getTokenBalance", 1)]
    /\ UNCHANGED <<assets, probe, pipeline, transfer>>

\* getTokenBalance settles: the async function of this index returns.
BalanceResolve(index) ==
    /\ index \in DOMAIN catalog.task
    /\ catalog.task[index].pc = "getTokenBalance"
    /\ catalog' = TaskFulfil(index, TokenBalance(catalog.task[index].source))
    /\ UNCHANGED <<assets, probe, pipeline, transfer>>

\* A lookup of one index rejects: Promise.all rejects at once (the first
\* rejection wins), the other indices go on.
LookupReject(index) ==
    /\ index \in DOMAIN catalog.task
    /\ catalog.task[index].pc
          \in {"address", "tokenToInfo", "tokenInfoGetter", "getTokenBalance"}
    /\ catalog' =
         IF catalog.pc = "tokens"
         THEN [catalog EXCEPT !.task[index].pc = "rejected",
                              !.pc = "done", !.outcome = "rejected"]
         ELSE [catalog EXCEPT !.task[index].pc = "rejected"]
    /\ UNCHANGED <<assets, probe, pipeline, transfer>>

\* Every async function has fulfilled: Promise.all fulfils with the array
\* of their values and getAllTokens returns it.
CatalogReturn ==
    /\ catalog.pc = "tokens"
    /\ \A index \in DOMAIN catalog.task : catalog.task[index].pc = "done"
    /\ catalog' = [catalog EXCEPT
            !.pc = "done", !.outcome = "returned",
            !.result = [i \in 1..unaryPlus(catalog.length) |->
                            catalog.tokens[i - 1]]]
    /\ UNCHANGED <<assets, probe, pipeline, transfer>>

Indices == 0..(MaxTokens - 1)

NextTokens ==
    \/ \E currentAccount \in Accounts, networkType \in NetworkTypes :
            CatalogCall(currentAccount, networkType)
    \/ \E n \in 0..MaxTokens, ok \in BOOLEAN : LengthResolve(n, ok)
    \/ \E index \in Indices : AddressResolve(index)
    \/ \E index \in Indices : InfoResolve(index)
    \/ \E index \in Indices : MetaResolve(index)
    \/ \E index \in Indices : BalanceResolve(index)
    \/ \E index \in Indices : LookupReject(index)
    \/ CatalogReturn

SpecTokens == Init /\ [][NextTokens]_vars

(***************************************************************************)
(* Status claims (checked under SpecStatus).                               *)
(***************************************************************************)
\* The decision table of the specification over the raw record fields.
TableStatus(record) ==
    IF record.timestamp = <<0>> THEN Unregistered
    ELSE IF record.target = TargetZero THEN Registering
    ELSE Registered

\* C1: for every record of a valid address, getTokenRegisterStatus returns
\* the status of the decision table: Unregistered when timestamp = 0
\* whatever the target, Registering when timestamp > 0 and target = 0,
\* Registered when timestamp > 0 and target # 0.
C1_StatusMatchesTable ==
    (probe.pc = "done" /\ probe.address \in ValidAddresses)
        => probe.status = Num(TableStatus(assets[probe.address]))

\* C2 as stated: whenever both queries return, hasRegistered equals
\* (status # Unregistered), an absent status counting as not Unregistered.
C2_IsRegisteredIffNotUnregistered ==
    (probe.pc = "done" /\ probe.status.kind # "throw")
        => /\ probe.registered.kind = "boolean"
           /\ Truthy(probe.registered) <=> (probe.status # Num(Unregistered))

\* C2 as amended: hasRegistered is true exactly when the status is
\* Registering or Registered; for a malformed address, whose status is
\* absent, it is false; when the status query throws, it throws too.
C2_IsRegisteredIffRegisteringOrRegistered ==
    probe.pc = "done" =>
        IF probe.status.kind = "throw"
        THEN probe.registered.kind = "throw"
        ELSE /\ probe.registered.kind = "boolean"
             /\ Truthy(probe.registered)
                    <=> probe.status \in {Num(Registering), Num(Registered)}

\* A malformed address was queried: absent status, not registered.
C2_Witness ==
    /\ probe.pc = "done"
    /\ probe.address \in MalformedAddresses
    /\ probe.status = Undefined
    /\ probe.registered = Bool(FALSE)

(***************************************************************************)
(* Pipeline claims (checked under Spec).                                   *)
(***************************************************************************)
Count(seq, x) == Cardinality({i \in 1..Len(seq) : seq[i] = x})

Submitted(c) == call[c].sent \/ mon[c].state # "none"

\* A call that found the token registered did nothing.
NoOpWhenRegistered(c) ==
    (call[c].pc # "hasRegistered" /\ call[c].pc # "idle"
        /\ call[c].status \in {Num(Registering), Num(Registered)})
    => /\ call[c].pc = "done"
       /\ call[c].outcome = "nothing"
       /\ ~call[c].sent
       /\ mon[c] = MonNone

\* C3 as stated: registerToken submits a transaction and starts monitoring
\* only when its pre-check found the status Unregistered, and is a no-op
\* when the pre-check found the token registered.
C3_RegistersOnlyWhenUnregistered ==
    \A c \in Calls :
        /\ Submitted(c) => call[c].status = Num(Unregistered)
        /\ NoOpWhenRegistered(c)

\* C3 as amended: registerToken submits a transaction and starts monitoring
\* only when its pre-check found hasRegistered false, that is the status
\* Unregistered or, for a malformed address, absent; when the pre-check
\* found the token registered it is a no-op: no transaction, no indexer
\* query, nothing published, nothing returned.
C3_RegistersOnlyWhenNotRegistered ==
    \A c \in Calls :
        /\ Submitted(c) => call[c].status \in {Num(Unregistered), Undefined}
        /\ NoOpWhenRegistered(c)

\* A second call found the token registered after the first call's
\* registration was mined, and did nothing.
C3_Witness ==
    \E c, d \in Calls :
        /\ call[c].sent
        /\ call[d].pc = "done" /\ call[d].outcome = "nothing"
        /\ call[d].status \in {Num(Registering), Num(Registered)}
        /\ call[d].address = call[c].address

\* C4: every poll of a monitor, the first and each retry, is a query to the
\* indexer: after k failed polls and one more attempt the monitor has
\* issued k + 1 queries (so that an indexer answering null k times and a
\* record on poll k + 1 sends it on to the proof fetch).
C4_EveryPollQueriesTheIndexer ==
    \A c \in Calls : mon[c].queries = mon[c].attempts

\* C5: every monitor whose proof fetch succeeded published its ProofEvent
\* on the bus exactly once, also when an earlier monitor had already
\* delivered, and no subscriber received it more than once.  (Stated for
\* the runs in which no proof fetch failed.)
C5_EveryProofPublishedOnce ==
    \A c \in Calls :
        (mon[c].state = "delivered" /\ ~subject.hasError)
        => /\ mon[c].nexts = 1
           /\ mon[c].accepted
           /\ \A s \in Subscribers : Count(sub[s].received, c) <= 1

\* A monitor's pipeline delivers in this step.
Publishes(c) == mon[c].state = "fetching" /\ mon'[c].state = "delivered"

\* C6: a published ProofEvent is delivered to every subscriber attached
\* before the publication and still subscribed, and to nobody else: a
\* subscriber receives an event only in the step that publishes it, never
\* on subscribing (no replay) nor after unsubscribing.
C6_Step ==
    /\ \A c \in Calls : Publishes(c) =>
            \A s \in Subscribers :
                sub'[s].received =
                    IF sub[s].state = "active"
                    THEN Append(sub[s].received, c) ELSE sub[s].received
    /\ (\A c \in Calls : ~Publishes(c)) =>
            \A s \in Subscribers : sub'[s].received = sub[s].received

C7_Order ==
    \A c \in Calls :
        /\ mon[c].queries > 0
            => call[c].sent /\ call[c].pc = "done"
               /\ call[c].outcome = "subscription"
        /\ mon[c].fetches <= 1
        /\ mon[c].fetches = 1 => mon[c].api = "record"
        /\ mon[c].nexts <= 1
        /\ mon[c].nexts = 1
            => mon[c].fetches = 1 /\ mon[c].proof = "resolved"
               /\ mon[c].state = "delivered"

C7_Step ==
    \A c \in Calls :
        /\ (mon'[c].state = "fetching" /\ mon[c].state # "fetching")
            => mon[c].state \in {"requesting", "delaying"}
        /\ (mon'[c].state = "delivered" /\ mon[c].state # "delivered")
            => mon[c].state = "fetching"
        /\ mon[c].state = "delivered" => mon'[c] = mon[c]

\* C7: the send has resolved before the first indexer query; the proof
\* fetch starts only after a non-null record was obtained; the ProofEvent
\* is published only after the proof fetch succeeded; a monitor fetches at
\* most one proof and publishes at most once; Delivered is terminal.
C7_StrictlyOrdered == []C7_Order /\ [][C7_Step]_vars

\* A monitor went through polling and the proof fetch and delivered.
C7_Witness ==
    \E c \in Calls :
        /\ mon[c].state = "delivered"
        /\ mon[c].fetches = 1 /\ mon[c].nexts = 1

\* A poll of monitor c fails in this step: the response of its request is
\* null or a rejection, or a retry subscribes again and fails again.
PollFails(c) ==
    \/ mon[c].state = "requesting" /\ mon'[c].api \in {"null", "rejected"}
    \/ mon[c].state = "delaying" /\ mon'[c].attempts = mon[c].attempts + 1
\* C8: a failed poll leaves the monitor polling with a retry scheduled after
\* the fixed delay, whatever the number of attempts made, and signals
\* neither an error nor a completion to the subscription, to the subject or
\* to its subscribers; a retry happens only when that delay has elapsed.
C8_Step ==
    \A c \in Calls :
        /\ PollFails(c)
            => /\ mon'[c].state = "delaying"
               /\ mon'[c].timer = RetryDelay
               /\ subject' = subject
               /\ sub' = sub
        /\ mon'[c].attempts # mon[c].attempts /\ mon[c].attempts > 0
            => mon[c].state = "delaying" /\ mon[c].timer = 0

C8_FailedPollRetriedSilently == [][C8_Step]_vars

\* A monitor on its third attempt, still polling, beside a live subject
\* with an active subscriber.
C8_Witness ==
    \E c \in Calls, s \in Subscribers :
        /\ mon[c].state = "delaying" /\ mon[c].attempts >= 3
        /\ ~subject.isStopped
        /\ sub[s].state = "active"

\* C9: after a failed proof fetch the monitor has failed for good: it
\* fetched once, published nothing, its error reached the subject (the
\* observer of its subscription), and it never polls or fetches again.
C9_Failed ==
    \A c \in Calls :
        mon[c].proof = "rejected"
        => /\ mon[c].state = "failed"
           /\ mon[c].fetches = 1
           /\ mon[c].nexts = 0
           /\ subject.isStopped

C9_Step ==
    \A c \in Calls :
        /\ mon[c].proof = "rejected" => mon'[c] = mon[c]
        /\ (mon[c].proof = "pending" /\ mon'[c].proof = "rejected"
                /\ ~subject.isStopped)
            => /\ subject'.hasError
               /\ \A s \in Subscribers :
                    sub[s].state = "active" => sub'[s].state = "errored"

C9_ProofFailureNotRetried == []C9_Failed /\ [][C9_Step]_vars

\* A proof fetch failed and the error reached a subscriber of the subject.
C9_Witness ==
    \E c \in Calls, s \in Subscribers :
        /\ mon[c].state = "failed" /\ mon[c].proof = "rejected"
        /\ subject.hasError
        /\ sub[s].state = "errored"

\* C10: once unsubscribed a monitor stays so: it polls and retries no
\* more, starts no proof fetch and publishes nothing, and the late results
\* of its pending request or proof fetch change nothing on the subject.
C10_Step ==
    \A c \in Calls :
        mon[c].state = "unsubscribed"
        => /\ mon'[c].state = "unsubscribed"
           /\ mon'[c].queries = mon[c].queries
           /\ mon'[c].attempts = mon[c].attempts
           /\ mon'[c].fetches = mon[c].fetches
           /\ mon'[c].nexts = mon[c].nexts
           /\ mon'[c] # mon[c] => subject' = subject /\ sub' = sub

C10_UnsubscribedMonitorIsSilent == [][C10_Step]_vars

\* One monitor was unsubscribed during its proof fetch, whose result came
\* later; another while its request was pending or its retry was waiting.
C10_Witness ==
    \E c, d \in Calls :
        /\ mon[c].state = "unsubscribed" /\ mon[c].proof = "ignored"
        /\ mon[d].state = "unsubscribed" /\ mon[d].proof = "none"
        /\ mon[d].api \in {"ignored", "null", "rejected"}

(***************************************************************************)
(* Symbol probing and the entry point it selects.                          *)
(***************************************************************************)
\* C11: while the send of a registerToken call is in flight, the symbol
\* type it awaited is {symbol of the string-typed call, isString: true} when
\* that call answered and {symbol of the fallback, isString: false} when it
\* threw, and the one method invoked is registerToken exactly when isString
\* is true and registerTokenBytes32 otherwise.
C11_SymbolTypeSelectsMethod ==
    \A c \in Calls :
        call[c].pc = "send" =>
            IF call[c].probed.string \in StringSymbols
            THEN /\ call[c].symbolType = [kind |-> "value",
                                          symbol |-> call[c].probed.string,
                                          isString |-> TRUE]
                 /\ call[c].probed.fallback = "none"
                 /\ call[c].register = "registerToken"
            ELSE /\ call[c].probed.string = "throw"
                 /\ call[c].probed.fallback \in FallbackSymbols
                 /\ call[c].symbolType = [kind |-> "value",
                                          symbol |-> call[c].probed.fallback,
                                          isString |-> FALSE]
                 /\ call[c].register = "registerTokenBytes32"

\* One call sends registerToken after a string symbol while the other sends
\* registerTokenBytes32 after the fallback.
C11_Witness ==
    \E c, d \in Calls :
        /\ call[c].pc = "send" /\ call[c].register = "registerToken"
        /\ call[c].symbolType.isString
        /\ call[d].pc = "send" /\ call[d].register = "registerTokenBytes32"
        /\ call[d].probed.string = "throw"
        /\ ~call[d].symbolType.isString

(***************************************************************************)
(* Destination to source transfer (checked under SpecTransfer).            *)
(***************************************************************************)
\* C12: crossSendErc20FromDvmToEth looks at the wallet's network first: no
\* crossTransfer exists while the check is pending; when the wallet reports
\* a network other than the expected id the call fails with the network
\* mismatch error and no crossTransfer was created; a crossTransfer exists
\* only after the check answered that the network matches.
C12_TransferOnlyAfterNetworkCheck ==
    /\ transfer.pc \in {"idle", "isNetworkMatch"} => transfer.created = <<>>
    /\ (transfer.connected.kind = "number"
            /\ transfer.connected.value # DVM_NETWORK_ID)
        => /\ transfer.pc = "done" /\ transfer.outcome = "rejected"
           /\ transfer.error = "NetworkMismatch"
           /\ transfer.created = <<>>
    /\ transfer.created # <<>>
        => /\ transfer.isMatch = Bool(TRUE)
           /\ transfer.connected = Num(DVM_NETWORK_ID)
           /\ Len(transfer.created) = 1

\* A transfer on a wallet connected to network 1 has failed.
C12_Witness ==
    /\ transfer.pc = "done"
    /\ transfer.connected = Num(1)
    /\ transfer.amount = Num(120)
    /\ transfer.error = "NetworkMismatch"
    /\ transfer.created = <<>>

(***************************************************************************)
(* Token listing (checked under SpecTokens).                               *)
(***************************************************************************)
\* The record the specification describes for index `index` of the
\* destination chain: tokenToInfo of allTokens(index), with the metadata
\* and the balance of that info's source address.
DvmRecord(index) ==
    LET info == TokenToInfo(DvmTokens[index + 1])
        meta == TokenInfoAnswer(info.source)
    IN  [source |-> info.source,
         backing |-> info.backing,
         address |-> info.source,
         symbol |-> IF "symbol" \in DOMAIN meta THEN meta.symbol ELSE "",
         decimals |-> IF "decimals" \in DOMAIN meta THEN meta.decimals ELSE 0,
         name |-> NameAndLogo(info.source).name,
         logo |-> NameAndLogo(info.source).logo,
         balance |-> TokenBalance(info.source)]

\* C13: when getAllTokens returns for the destination chain whose
\* tokenLength() is N, exactly N allTokens and N tokenToInfo lookups were
\* issued and the result has N records in index order, record i being the
\* tokenToInfo of allTokens(i) combined with the metadata of that info's
\* source address, in whatever order the lookups completed.
C13_DvmTokensInIndexOrder ==
    (catalog.pc = "done" /\ catalog.outcome = "returned"
        /\ catalog.currentAccount \notin {"undef", "empty"}
        /\ catalog.networkType = "dvm")
    => LET N == unaryPlus(catalog.length)
       IN  /\ catalog.lookups.tokenLength = 1
           /\ catalog.lookups.allTokens = N
           /\ catalog.lookups.tokenToInfo = N
           /\ catalog.lookups.assetLength = 0
           /\ catalog.lookups.allAssets = 0
           /\ Len(catalog.result) = N
           /\ \A i \in 1..N : catalog.result[i] = DvmRecord(i - 1)

\* A listing of two or more tokens returned although a later index
\* completed first.
C13_Witness ==
    /\ catalog.pc = "done" /\ catalog.outcome = "returned"
    /\ catalog.networkType = "dvm"
    /\ Len(catalog.result) >= 2
    /\ catalog.completed[1] # 0

\* C19: getAllTokens called without an account returns the empty list for
\* either chain and issues no lookup at all: no length, no enumeration, no
\* metadata, no balance.
C19_NoAccountNoLookup ==
    (catalog.pc # "idle" /\ catalog.currentAccount \in {"undef", "empty"})
    => /\ catalog.pc = "done" /\ catalog.outcome = "returned"
       /\ catalog.result = <<>>
       /\ catalog.lookups = NoLookups
       /\ catalog.task = <<>>

\* Both kinds of absent account, on the destination chain.
C19_Witness ==
    /\ catalog.pc = "done"
    /\ catalog.currentAccount = "empty"
    /\ catalog.networkType = "dvm"
    /\ catalog.result = <<>>

(***************************************************************************)
(* Progress of a monitor (checked under SpecLive).                         *)
(***************************************************************************)
\* C14: under fair scheduling, a monitor that is polling after a null
\* answer, and whose registration the indexer has indexed by now,
\* eventually leaves polling: it delivers its proof, or its proof fetch
\* fails, or it is unsubscribed.
C14_IndexedMonitorDelivers ==
    \A c \in Calls :
        (/\ mon[c].state = "delaying"
         /\ mon[c].api = "null"
         /\ call[c].address \in ValidAddresses
         /\ indexed[call[c].address])
        ~> (mon[c].state \in {"delivered", "failed", "unsubscribed"})

(***************************************************************************)
(* Independence and interleaving of registrations (checked under Spec).    *)
(***************************************************************************)
\* The step in which monitor c delivers while every other monitor is of
\* another address and has not delivered (it polls, fetches, has failed
\* its proof fetch or was unsubscribed): every subscriber that subscribed
\* and did not unsubscribe gets c's event.
C15_Step ==
    \A c \in Calls :
        (/\ mon[c].state # "delivered"
         /\ mon'[c].state = "delivered"
         /\ \A d \in Calls \ {c} :
                /\ mon[d].state # "delivered"
                /\ mon[d].state # "none"
                        => call[d].address # call[c].address)
        => \A s \in Subscribers :
                sub[s].state \notin {"idle", "unsubscribed"}
                    => Count(sub'[s].received, c) = 1

\* C15: pipelines of different addresses are independent: a proof-fetch
\* failure or an unsubscription in the pipeline of one address does not
\* keep the pipeline of another address from delivering its proof event to
\* the subscribers of the stream.
C15_OtherPipelineUnaffected == [][C15_Step]_vars

\* The step in which the pre-check of call c resolves while the contract
\* holds no registration of its address: the call goes on to register,
\* whatever other calls for the same address are doing.
C16_Step ==
    \A c \in Calls :
        (/\ call[c].pc = "hasRegistered"
         /\ call'[c].pc # "hasRegistered"
         /\ call[c].address \in ValidAddresses
         /\ assets[call[c].address].timestamp = <<0>>)
        => /\ call'[c].pc = "getAccount"
           /\ call'[c].status = Num(Unregistered)

\* C16: the pre-check of registerToken is not a lock: a call whose
\* pre-check reads an unregistered record goes on to submit even when
\* another call for the same address has passed its own pre-check or has
\* submitted already, so two interleaved calls can both register and start
\* a monitor each.
C16_PrecheckIsNotALock == [][C16_Step]_vars

\* Two calls for the same address have both passed the pre-check as
\* Unregistered, both submitted, and each has its own monitor.
C16_Witness ==
    \E c, d \in Calls :
        /\ c # d
        /\ call[c].address = call[d].address
        /\ call[c].address \in ValidAddresses
        /\ call[c].status = Num(Unregistered) /\ call[d].status = Num(Unregistered)
        /\ call[c].sent /\ call[d].sent
        /\ call[c].outcome = "subscription" /\ call[d].outcome = "subscription"
        /\ mon[c].state # "none" /\ mon[d].state # "none"

(***************************************************************************)
(* Failures inside registerToken (checked under Spec).                     *)
(***************************************************************************)
\* C17: when both symbol calls of getSymbolType threw, or the send was
\* rejected, registerToken rejects with that error and the call has no
\* monitor: no indexer query, no proof fetch, nothing published for it.
C17_FailedRegisterStartsNoMonitor ==
    \A c \in Calls :
        /\ call[c].probed = [string |-> "throw", fallback |-> "throw"]
            => /\ call[c].pc = "done" /\ call[c].outcome = "rejected"
               /\ call[c].error = "getSymbolType"
               /\ ~call[c].sent
               /\ mon[c] = MonNone
        /\ call[c].error = "send"
            => /\ call[c].pc = "done" /\ call[c].outcome = "rejected"
               /\ call[c].sent
               /\ mon[c] = MonNone
        /\ call[c].outcome = "rejected"
            => \A s \in Subscribers : Count(sub[s].received, c) = 0

\* One call failed in getSymbolType and the other in send, while a
\* subscriber is attached.
C17_Witness ==
    \E c, d \in Calls :
        /\ call[c].error = "getSymbolType" /\ call[c].outcome = "rejected"
        /\ call[d].error = "send" /\ call[d].outcome = "rejected"
        /\ \E s \in Subscribers : sub[s].state = "active"

(***************************************************************************)
(* Status of a malformed address (checked under SpecStatus).               *)
(***************************************************************************)
\* C18: getTokenRegisterStatus called with undefined, the empty string or
\* a string that is not an address returns undefined: it does not throw,
\* it does not read the assets record, whatever the contract holds, and
\* nothing is submitted or published.
C18_InvalidAddressIsAbsent ==
    (probe.pc = "done" /\ probe.address \in {"undef", "empty", "short"})
    => /\ probe.status = Undefined
       /\ probe.reads = 0
       /\ \A c \in Calls : ~call[c].sent /\ mon[c] = MonNone
       /\ \A s \in Subscribers : sub[s].received = <<>>
       /\ ~subject.isStopped

\* The status of "0x123" was asked for while the contract holds a
\* registration.
C18_Witness ==
    /\ probe.pc = "done"
    /\ probe.address = "short"
    /\ probe.status = Undefined
    /\ \E a \in ValidAddresses : assets[a].timestamp # <<0>>

(***************************************************************************)
(* The shared stream after a monitor has ended (checked under Spec).       *)
(***************************************************************************)
\* Once a monitor has delivered (and completed) or failed its proof fetch,
\* the subject is stopped and no subscriber is attached.
C20_Closed ==
    (\E c \in Calls : mon[c].state \in {"delivered", "failed"})
    => /\ subject.isStopped
       /\ subject.observers = {}
       /\ \A s \in Subscribers : sub[s].state # "active"

\* A stopped subject stays stopped, and from then on no subscriber,
\* attached before or subscribing now, receives anything, whichever
\* monitor publishes.
C20_Step ==
    subject.isStopped
    => /\ subject'.isStopped
       /\ \A s \in Subscribers :
            /\ sub'[s].received = sub[s].received
            /\ sub'[s].state # "active"

\* C20: every monitor subscribes the shared subject itself as its
\* observer, so the first monitor that ends, by delivering and completing
\* or by a failed proof fetch, closes the stream: afterwards no subscriber
\* observes a proof event of any later monitor.
C20_StreamClosedByFirstMonitor == []C20_Closed /\ [][C20_Step]_vars

\* A first monitor delivered to the attached subscriber; a second monitor
\* delivered afterwards and its event reached neither that subscriber nor
\* the one that subscribed in between.
C20_Witness ==
    \E c, d \in Calls :
        /\ mon[c].state = "delivered" /\ mon[c].accepted
        /\ mon[d].state = "delivered" /\ ~mon[d].accepted
        /\ sub[1].received = <<c>>
        /\ sub[2].state = "completed" /\ sub[2].received = <<>>

====
